---- MODULE Spec2Model ----
(***************************************************************************)
(* Model of graph-stuff: the adjacency-matrix graph (mtx_graph), the       *)
(* adjacency-list graph (list_graph), their traversals, Dijkstra, Tarjan   *)
(* and the transitive-closure algorithms.                                  *)
(*                                                                         *)
(* A Rust Vec is a TLA+ sequence: element i of the Vec is element i+1 of   *)
(* the sequence.  An Option is a sequence of length 0 (None) or 1 (Some).  *)
(***************************************************************************)
EXTENDS Integers, Sequences, FiniteSets, TLC

\* ------------------------------------------------------------------ bounds
\* Largest number of nodes a graph is grown to.
MaxNodes == 3
\* Largest edge weight passed to a weighted add_edge.
MaxWeight == 3
\* Largest number of mutating calls made on a graph under construction.
MaxCalls == 6
\* The traversal-order specification: nodes and edges of the matrix graph, and
\* add_edge calls on the list graph.
MaxOrderNodes == 4
MaxOrderEdges == 4
MaxOrderListEdges == 3

\* Node values: the tests use the unit type, one value.
Values == {"unit"}

VARIABLES
    pd,        \* Graph.pd: the Directed / Undirected marker
    pw,        \* Graph.pw: the Weighted / Unweighted marker
    n,         \* Graph.n
    mtx,       \* Graph.mtx, the flat weight vector
    vals,      \* Graph.vals
    node_map,  \* Graph.node_map: value -> index of the last node added with it
    calls,     \* number of mutating calls made so far
    last,      \* the last mutating call and the graph it was made on
    lpd,       \* list Graph.pd: the Directed / Undirected marker
    nodes,     \* list Graph.nodes
    it,        \* the traversal iterator in use (DFS, BFS or list BFS)
    out,       \* what the iterator's consumer has been handed so far
    res,       \* the value returned by a closure / SCC call
    dj         \* the dijkstra / path_to call in progress: its arguments and locals

vars == <<pd, pw, n, mtx, vals, node_map, calls, last, lpd, nodes, it, out, res, dj>>

build_vars == <<pd, pw, n, mtx, vals, node_map, calls, last>>
alg_vars == <<lpd, nodes, it, out, res, dj>>

\* ------------------------------------------------------- matrix graph
\* Element i (zero-based) of a Vec.
At(v, i) == v[i + 1]

\* The Vec v with element i (zero-based) replaced by e.
Put(v, i, e) == [v EXCEPT ![i + 1] = e]

\* A Vec of k zeros.
Zeros(k) == [i \in 1..k |-> 0]

\* The graph as a value: the two fields the lookups read.
G == [n |-> n, mtx |-> mtx]

Nodes(g) == 0..(g.n - 1)

calc_2d_to_1d(x, y, len) == x * len + y

edges(g, idx) == SubSeq(g.mtx, idx * g.n + 1, idx * g.n + g.n)

has_edge(g, x, y) == At(g.mtx, calc_2d_to_1d(x, y, g.n)) > 0

edge_weight(g, x, y) == At(g.mtx, calc_2d_to_1d(x, y, g.n))

add_edge_weight(g, x, y, weight) ==
    [g EXCEPT !.mtx = Put(g.mtx, calc_2d_to_1d(x, y, g.n), weight)]

\* The four add_edge implementations, selected by the markers.
add_edge(d, w, g, x, y, weight) ==
    LET wt == IF w = "Weighted" THEN weight ELSE 1
    IN  IF d = "Undirected"
        THEN add_edge_weight(add_edge_weight(g, x, y, wt), y, x, wt)
        ELSE add_edge_weight(g, x, y, wt)

\* add_node: n grows by one and n^2 - (n-1)^2 zero cells are pushed on the
\* end of the flat vector; the cells already there stay where they are.
add_node(g) ==
    LET n1 == g.n + 1
        ncells == n1 * n1 - (n1 - 1) * (n1 - 1)
    IN  [n |-> n1, mtx |-> g.mtx \o Zeros(ncells)]

\* The (y, x) pairs of transpose's two loops, in the order they are visited.
RECURSIVE TransposePairs(_, _, _)
TransposePairs(len, y, x) ==
    IF y >= len THEN <<>>
    ELSE IF x >= len THEN TransposePairs(len, y + 1, y + 1)
    ELSE <<<<y, x>>>> \o TransposePairs(len, y, x + 1)

\* A swap that forgets its temporary: cell a is overwritten and copied back.
TransposeSwapNoTmp(m, len, y, x) ==
    LET a == calc_2d_to_1d(x, y, len)
        b == calc_2d_to_1d(y, x, len)
    IN  Put(Put(m, a, At(m, b)), b, At(m, b))

\* One swap of the loop body.
TransposeSwap(m, len, y, x) ==
    LET a == calc_2d_to_1d(x, y, len)
        b == calc_2d_to_1d(y, x, len)
        tmp == At(m, a)
    IN  Put(Put(m, a, At(m, b)), b, tmp)

RECURSIVE TransposeLoop(_, _, _)
TransposeLoop(m, len, ps) ==
    IF ps = <<>> THEN m
    ELSE TransposeLoop(TransposeSwap(m, len, Head(ps)[1], Head(ps)[2]), len, Tail(ps))

transpose(g) ==
    [g EXCEPT !.mtx = TransposeLoop(g.mtx, g.n, TransposePairs(g.n, 0, 0))]

\* ------------------------------------------- indexing the flat vector
\* self.mtx[idx] panics exactly when idx is not below the Vec's length; the
\* node count is never consulted.
InVec(m, idx) == idx < Len(m)

\* add_edge_weight on a call that may already have panicked: r is the graph
\* so far and whether the call has panicked.
add_edge_weight_indexed(r, x, y, weight) ==
    LET idx == calc_2d_to_1d(x, y, r.g.n)
    IN  IF r.panicked THEN r
        ELSE IF InVec(r.g.mtx, idx)
             THEN [r EXCEPT !.g = add_edge_weight(r.g, x, y, weight)]
             ELSE [r EXCEPT !.panicked = TRUE]

\* add_edge with any two indices: the writes it makes before it panics stay.
add_edge_indexed(d, w, g, x, y, weight) ==
    LET wt == IF w = "Weighted" THEN weight ELSE 1
        r0 == [g |-> g, panicked |-> FALSE]
        r1 == add_edge_weight_indexed(r0, x, y, wt)
    IN  IF d = "Undirected" THEN add_edge_weight_indexed(r1, y, x, wt) ELSE r1

\* has_edge and edge_weight with any two indices: Some(value) or a panic.
has_edge_indexed(g, x, y) ==
    IF InVec(g.mtx, calc_2d_to_1d(x, y, g.n))
    THEN [panicked |-> FALSE, ret |-> <<has_edge(g, x, y)>>]
    ELSE [panicked |-> TRUE, ret |-> <<>>]

edge_weight_indexed(g, x, y) ==
    IF InVec(g.mtx, calc_2d_to_1d(x, y, g.n))
    THEN [panicked |-> FALSE, ret |-> <<edge_weight(g, x, y)>>]
    ELSE [panicked |-> TRUE, ret |-> <<>>]

\* ------------------------------------------------------- list graph
\* Node::new(val, Vec::new()) pushed on the node Vec.
list_add_node(ns, val) == Append(ns, [data |-> val, edges |-> <<>>])

\* The two list add_edge implementations, selected by the marker.
list_add_edge(d, ns, a, b, weight) ==
    LET ns1 == [ns EXCEPT ![a + 1].edges = Append(@, [weight |-> weight, next |-> b])]
    IN  IF d = "Undirected"
        THEN [ns1 EXCEPT ![b + 1].edges = Append(@, [weight |-> weight, next |-> a])]
        ELSE ns1

list_edges(ns, idx) == At(ns, idx).edges

\* neighbors: the destinations of a node's edges, in insertion order.
list_neighbors(ns, idx) ==
    [k \in 1..Len(list_edges(ns, idx)) |-> list_edges(ns, idx)[k].next]

\* ------------------------------------------------------- traversal
\* The iterator chain edges(idx).iter().enumerate().filter(e > 0).map(i):
\* the indices of the positive cells of a row, ascending.  This one forgets
\* the filter.
RECURSIVE RowNeighborsNoFilter(_, _)
RowNeighborsNoFilter(row, i) ==
    IF i >= Len(row) THEN <<>>
    ELSE <<i>> \o RowNeighborsNoFilter(row, i + 1)

RECURSIVE RowNeighbors(_, _)
RowNeighbors(row, i) ==
    IF i >= Len(row) THEN <<>>
    ELSE IF At(row, i) > 0 THEN <<i>> \o RowNeighbors(row, i + 1)
    ELSE RowNeighbors(row, i + 1)

mtx_neighbors(g, idx) == RowNeighbors(edges(g, idx), 0)

\* The loop body shared by the three next(): every neighbour not yet in
\* visited is pushed on the back of the frontier and inserted in visited.
RECURSIVE PushUnvisited(_, _)
PushUnvisited(st, nbrs) ==
    IF nbrs = <<>> THEN st
    ELSE IF Head(nbrs) \in st.visited THEN PushUnvisited(st, Tail(nbrs))
    ELSE PushUnvisited([st EXCEPT !.frontier = Append(@, Head(nbrs)),
                                  !.visited = @ \cup {Head(nbrs)}],
                       Tail(nbrs))

\* A DFS::new that forgets to mark the start visited.
DFS_new_unmarked(start) ==
    [kind |-> "DFS", frontier |-> <<start>>, visited |-> {}]

DFS_new(start) ==
    [kind |-> "DFS", frontier |-> <<start>>, visited |-> {start}]

BFS_new(start) ==
    [kind |-> "BFS", frontier |-> <<start>>, visited |-> {start}]

ListBFS_new(start) ==
    [kind |-> "ListBFS", frontier |-> <<start>>, visited |-> {start}]

\* next() returns the iterator after the call and the Option it hands out.
DFS_next(g, st) ==
    IF st.frontier = <<>> THEN [it |-> st, item |-> <<>>]
    ELSE LET next == st.frontier[Len(st.frontier)]
             popped == [st EXCEPT !.frontier = SubSeq(@, 1, Len(@) - 1)]
         IN  [it |-> PushUnvisited(popped, mtx_neighbors(g, next)),
              item |-> <<next>>]

\* A next() that takes the node pushed last.
BFS_next_back(g, st) ==
    IF st.frontier = <<>> THEN [it |-> st, item |-> <<>>]
    ELSE LET next == st.frontier[Len(st.frontier)]
             popped == [st EXCEPT !.frontier = SubSeq(@, 1, Len(@) - 1)]
         IN  [it |-> PushUnvisited(popped, mtx_neighbors(g, next)),
              item |-> <<next>>]

BFS_next(g, st) ==
    IF st.frontier = <<>> THEN [it |-> st, item |-> <<>>]
    ELSE LET next == Head(st.frontier)
             popped == [st EXCEPT !.frontier = Tail(@)]
         IN  [it |-> PushUnvisited(popped, mtx_neighbors(g, next)),
              item |-> <<next>>]

ListBFS_next(ns, st) ==
    IF st.frontier = <<>> THEN [it |-> st, item |-> <<>>]
    ELSE LET next == Head(st.frontier)
             popped == [st EXCEPT !.frontier = Tail(@)]
         IN  [it |-> PushUnvisited(popped, list_neighbors(ns, next)),
              item |-> <<next>>]

\* ------------------------------------------------ transitive closure
\* TransitiveClosureMtx::from_len
from_len(len) == [y \in 1..len |-> [x \in 1..len |-> FALSE]]

\* for x in graph.bfs(idx) { row[x] = true }: the iterator is consumed to
\* its end, each item setting one cell of the row.
RECURSIVE MarkBfs(_, _, _)
MarkBfs(g, st, row) ==
    LET r == BFS_next(g, st)
    IN  IF r.item = <<>> THEN row
        ELSE MarkBfs(g, r.it, Put(row, r.item[1], TRUE))

\* A closure whose traversals never hand out their own start node.
closure_without_start(g) ==
    [y \in 1..g.n |->
        [MarkBfs(g, BFS_new(y - 1), from_len(g.n)[y]) EXCEPT ![y] = FALSE]]

bfs_compute_closure_mtx(g) ==
    [y \in 1..g.n |-> MarkBfs(g, BFS_new(y - 1), from_len(g.n)[y])]

\* purdoms: the body is unimplemented!(), which panics on every call.
purdoms(g) == [panicked |-> TRUE, val |-> <<>>]

\* ------------------------------------------------------------ Tarjan
\* Tarjan::new.  nb maps every node to the sequence of neighbours the dfs
\* loop walks: the positive cells of its row (matrix form) or its edges'
\* destinations (list form).
Tarjan_new(len) ==
    [n |-> len, id |-> 0, scc_count |-> 0,
     ids |-> [i \in 1..len |-> -1],
     low |-> [i \in 1..len |-> 0],
     on_stack |-> [i \in 1..len |-> FALSE],
     stack |-> <<>>]

\* cmp::max where cmp::min is meant.
MaxOf(a, b) == IF a < b THEN b ELSE a

Min(a, b) == IF a < b THEN a ELSE b

\* A pop loop that labels the component with the index of its root node.
RECURSIVE TarjanPopIndex(_, _)
TarjanPopIndex(t, at) ==
    IF t.stack = <<>> THEN t
    ELSE LET node == t.stack[Len(t.stack)]
             t1 == [t EXCEPT !.stack = SubSeq(@, 1, Len(@) - 1),
                             !.on_stack = Put(@, node, FALSE),
                             !.low = Put(@, node, at)]
         IN  IF node = at THEN t1 ELSE TarjanPopIndex(t1, at)

\* while let Some(node) = stack.pop() { ...; if node == at { break; } }
RECURSIVE TarjanPop(_, _)
TarjanPop(t, at) ==
    IF t.stack = <<>> THEN t
    ELSE LET node == t.stack[Len(t.stack)]
             t1 == [t EXCEPT !.stack = SubSeq(@, 1, Len(@) - 1),
                             !.on_stack = Put(@, node, FALSE),
                             !.low = Put(@, node, At(t.ids, at))]
         IN  IF node = at THEN t1 ELSE TarjanPop(t1, at)

RECURSIVE TarjanDfs(_, _, _)
RECURSIVE TarjanVisit(_, _, _, _)
\* The for loop of dfs over the neighbours still to walk.
TarjanVisit(nb, t, at, rest) ==
    IF rest = <<>> THEN t
    ELSE LET neighbor == Head(rest)
             ta == IF At(t.ids, neighbor) = -1 THEN TarjanDfs(nb, t, neighbor) ELSE t
             tb == IF At(ta.on_stack, neighbor)
                   THEN [ta EXCEPT !.low = Put(@, at, Min(At(ta.low, at), At(ta.low, neighbor)))]
                   ELSE ta
         IN  TarjanVisit(nb, tb, at, Tail(rest))

TarjanDfs(nb, t, at) ==
    LET t1 == [t EXCEPT !.stack = Append(@, at),
                        !.on_stack = Put(@, at, TRUE),
                        !.id = @ + 1,
                        !.ids = Put(@, at, t.id + 1),
                        !.low = Put(@, at, t.id + 1)]
        t2 == TarjanVisit(nb, t1, at, nb[at])
    IN  IF At(t2.ids, at) = At(t2.low, at)
        THEN [TarjanPop(t2, at) EXCEPT !.scc_count = @ + 1]
        ELSE t2

\* for i in 0..n { if ids[i] == -1 { dfs(i) } }
RECURSIVE TarjanRoots(_, _, _)
TarjanRoots(nb, t, i) ==
    IF i >= t.n THEN t
    ELSE TarjanRoots(nb, IF At(t.ids, i) = -1 THEN TarjanDfs(nb, t, i) ELSE t, i + 1)

\* Tarjan::new(&g).sccs() on a matrix graph (purdoms.rs).
sccs(g) ==
    TarjanRoots([i \in Nodes(g) |-> mtx_neighbors(g, i)], Tarjan_new(g.n), 0).low

\* Tarjan::new(&g).sccs() on a list graph (tarjan.rs); that struct has no
\* scc_count field, which nothing reads.
list_sccs(ns) ==
    TarjanRoots([i \in 0..(Len(ns) - 1) |-> list_neighbors(ns, i)],
                Tarjan_new(Len(ns)), 0).low

\* ---------------------------------------------------------- Dijkstra
\* HashMap::insert
MapInsert(m, k, v) == [x \in (DOMAIN m) \cup {k} |-> IF x = k THEN v ELSE m[x]]

\* cost_so_far.get(&k).unwrap_or(&0)
GetOr0(m, k) == IF k \in DOMAIN m THEN m[k] ELSE 0

\* QueueNode's Ord compares the weights the other way round, so the greatest
\* element of the BinaryHeap, the one pop() returns, has the least weight.
\* Which of several nodes of equal weight pop() returns is left open.  This
\* one keeps the natural order: the greatest weight is popped.
IsTopNatural(frontier, q) ==
    q \in frontier /\ \A o \in frontier : o.weight <= q.weight

IsTop(frontier, q) ==
    q \in frontier /\ \A o \in frontier : q.weight <= o.weight

\* The test guarding a relaxation, without the max_cost bound.
RelaxesUnbounded(cost_so_far, max_cost, neighbor, new_cost) ==
    LET next_cost == GetOr0(cost_so_far, neighbor)
    IN  neighbor \notin DOMAIN cost_so_far \/ new_cost < next_cost

\* The test guarding a relaxation.
\* A test that also passes on a route of equal cost.
RelaxesOnEqual(cost_so_far, max_cost, neighbor, new_cost) ==
    LET next_cost == GetOr0(cost_so_far, neighbor)
    IN  /\ (neighbor \notin DOMAIN cost_so_far \/ new_cost <= next_cost)
        /\ (max_cost = <<>> \/ new_cost <= max_cost[1])

Relaxes(cost_so_far, max_cost, neighbor, new_cost) ==
    LET next_cost == GetOr0(cost_so_far, neighbor)
    IN  /\ (neighbor \notin DOMAIN cost_so_far \/ new_cost < next_cost)
        /\ (max_cost = <<>> \/ new_cost <= max_cost[1])

\* The for loop over the positive cells of current's row, ascending.  The
\* weights of the model stay far below 2^31, where `as i32` keeps the value.
RECURSIVE RelaxLoop(_, _, _, _)
RelaxLoop(g, d, current, nbrs) ==
    IF nbrs = <<>> THEN d
    ELSE LET neighbor == Head(nbrs)
             edge == edge_weight(g, current, neighbor)
             new_cost == GetOr0(d.cost_so_far, current) + edge
         IN  IF Relaxes(d.cost_so_far, d.max_cost, neighbor, new_cost)
             THEN RelaxLoop(g,
                      [d EXCEPT !.cost_so_far = MapInsert(@, neighbor, new_cost),
                                !.came_from = MapInsert(@, neighbor, <<current>>),
                                !.frontier = @ \cup {[idx |-> neighbor, weight |-> new_cost]}],
                      current, Tail(nbrs))
             ELSE RelaxLoop(g, d, current, Tail(nbrs))

\* The locals of dijkstra before its loop.
dijkstra_new(call, start, max_cost, target) ==
    [pc |-> "loop", call |-> call, start |-> start, max_cost |-> max_cost,
     target |-> target,
     frontier |-> {[idx |-> start, weight |-> 0]},
     came_from |-> MapInsert(<<>>, start, <<>>),
     cost_so_far |-> MapInsert(<<>>, start, 0),
     ret |-> <<>>]

\* A path_to loop that hands out the path walked so far when the chain of
\* predecessors breaks.
RECURSIVE PathWalkPartial(_, _, _, _)
PathWalkPartial(came_from, start, curr, path) ==
    IF curr = start THEN <<path>>
    ELSE IF curr \notin DOMAIN came_from THEN <<Append(path, curr)>>
    ELSE IF came_from[curr] = <<>> THEN <<Append(path, curr)>>
    ELSE PathWalkPartial(came_from, start, came_from[curr][1], Append(path, curr))

\* The loop of path_to: Some(path) is <<path>>, None is <<>>.
RECURSIVE PathWalk(_, _, _, _)
PathWalk(came_from, start, curr, path) ==
    IF curr = start THEN <<path>>
    ELSE IF curr \notin DOMAIN came_from THEN <<>>
    ELSE IF came_from[curr] = <<>> THEN <<>>
    ELSE PathWalk(came_from, start, came_from[curr][1], Append(path, curr))

\* What the call returns once dijkstra's loop has ended.
Return(d) ==
    [d EXCEPT !.pc = "done",
              !.ret = IF d.call = "path_to"
                      THEN PathWalk(d.came_from, d.start, d.target[1], <<>>)
                      ELSE d.came_from]

\* One turn of `while let Some(current) = frontier.pop()` with current popped.
dijkstra_turn(g, d, current) ==
    LET popped == [d EXCEPT !.frontier = @ \ {current}]
    IN  IF d.target = <<current.idx>> THEN Return(popped)
        ELSE RelaxLoop(g, popped, current.idx, mtx_neighbors(g, current.idx))

\* No algorithm has been called and no list graph exists.
NoIter == [kind |-> "none", frontier |-> <<>>, visited |-> {}]
NoOut == [start |-> <<>>, yielded |-> <<>>, exhausted |-> FALSE]
NoRes == [fn |-> "none", panicked |-> FALSE, val |-> <<>>]

NoDj ==
    [pc |-> "idle", call |-> "none", start |-> 0, max_cost |-> <<>>, target |-> <<>>,
     frontier |-> {}, came_from |-> <<>>, cost_so_far |-> <<>>, ret |-> <<>>]

AlgIdle ==
    /\ dj = NoDj
    /\ lpd = "Directed"
    /\ nodes = <<>>
    /\ it = NoIter
    /\ out = NoOut
    /\ res = NoRes

\* --------------------------------------------- construction: actions
Init ==
    /\ pd \in {"Directed", "Undirected"}
    /\ pw \in {"Weighted", "Unweighted"}
    /\ n = 0
    /\ mtx = <<>>
    /\ vals = <<>>
    /\ node_map = <<>>
    /\ calls = 0
    /\ last = [op |-> "default", g |-> [n |-> 0, mtx |-> <<>>]]
    /\ AlgIdle

AddNode ==
    /\ calls < MaxCalls
    /\ n < MaxNodes
    /\ \E val \in Values :
        /\ n' = add_node(G).n
        /\ mtx' = add_node(G).mtx
        /\ vals' = Append(vals, val)
        /\ node_map' = [v \in (DOMAIN node_map) \cup {val} |->
                           IF v = val THEN n' - 1 ELSE node_map[v]]
    /\ calls' = calls + 1
    /\ last' = [op |-> "add_node", g |-> G]
    /\ UNCHANGED <<pd, pw>>
    /\ UNCHANGED alg_vars

AddEdge ==
    /\ calls < MaxCalls
    /\ \E x \in Nodes(G), y \in Nodes(G), weight \in 0..MaxWeight :
        /\ pw = "Unweighted" => weight = 1
        /\ mtx' = add_edge(pd, pw, G, x, y, weight).mtx
        /\ last' = [op |-> "add_edge", g |-> G, x |-> x, y |-> y]
    /\ calls' = calls + 1
    /\ UNCHANGED <<pd, pw, n, vals, node_map>>
    /\ UNCHANGED alg_vars

Transpose ==
    /\ calls < MaxCalls
    /\ mtx' = transpose(G).mtx
    /\ calls' = calls + 1
    /\ last' = [op |-> "transpose", g |-> G]
    /\ UNCHANGED <<pd, pw, n, vals, node_map>>
    /\ UNCHANGED alg_vars

Next == AddNode \/ AddEdge \/ Transpose

Spec == Init /\ [][Next]_vars

\* ------------------------------------- indexing: specification
\* The calls that take two node indices, made with any indices up to MaxNodes.
IndexOps == {"add_edge_indexed", "has_edge_indexed", "edge_weight_indexed"}

\* A panic aborts the process: no further call is made.
Aborted == last.op \in IndexOps /\ last.panicked

IndexAddNode == ~Aborted /\ AddNode

IndexAddEdge ==
    /\ ~Aborted
    /\ calls < MaxCalls
    /\ \E x \in 0..MaxNodes, y \in 0..MaxNodes, weight \in 0..MaxWeight :
        /\ pw = "Unweighted" => weight = 1
        /\ mtx' = add_edge_indexed(pd, pw, G, x, y, weight).g.mtx
        /\ last' = [op |-> "add_edge_indexed", g |-> G, x |-> x, y |-> y,
                    panicked |-> add_edge_indexed(pd, pw, G, x, y, weight).panicked,
                    ret |-> <<>>]
    /\ calls' = calls + 1
    /\ UNCHANGED <<pd, pw, n, vals, node_map>>
    /\ UNCHANGED alg_vars

IndexHasEdge ==
    /\ ~Aborted
    /\ \E x \in 0..MaxNodes, y \in 0..MaxNodes :
        last' = [op |-> "has_edge_indexed", g |-> G, x |-> x, y |-> y,
                 panicked |-> has_edge_indexed(G, x, y).panicked,
                 ret |-> has_edge_indexed(G, x, y).ret]
    /\ UNCHANGED <<pd, pw, n, mtx, vals, node_map, calls>>
    /\ UNCHANGED alg_vars

\* edge_weight exists on weighted graphs only.
IndexEdgeWeight ==
    /\ ~Aborted
    /\ pw = "Weighted"
    /\ \E x \in 0..MaxNodes, y \in 0..MaxNodes :
        last' = [op |-> "edge_weight_indexed", g |-> G, x |-> x, y |-> y,
                 panicked |-> edge_weight_indexed(G, x, y).panicked,
                 ret |-> edge_weight_indexed(G, x, y).ret]
    /\ UNCHANGED <<pd, pw, n, mtx, vals, node_map, calls>>
    /\ UNCHANGED alg_vars

NextIndex == IndexAddNode \/ IndexAddEdge \/ IndexHasEdge \/ IndexEdgeWeight

SpecIndex == Init /\ [][NextIndex]_vars

\* ------------------------------------------- algorithms: specification
\* Largest number of edges of a graph an algorithm is run on.
MaxEdges == 5
\* Largest number of add_edge calls that build a list graph.
MaxListEdges == 3

\* The flat vectors of the directed unweighted graphs with len nodes and at
\* most MaxEdges edges: each is reached by len add_node calls followed by one
\* add_edge call per edge.  The traversals, the closure and Tarjan read a cell
\* only through `e > 0`, so a weight above 1 or an undirected marker gives
\* them nothing these graphs do not.
Matrices(len) ==
    {m \in [1..(len * len) -> {0, 1}] :
        Cardinality({i \in 1..(len * len) : m[i] = 1}) <= MaxEdges}

\* Graph::new() followed by len add_node calls.
RECURSIVE ListNodes(_)
ListNodes(len) ==
    IF len = 0 THEN <<>> ELSE list_add_node(ListNodes(len - 1), "unit")

\* The list graph built by len add_node calls followed by the add_edge calls es.
RECURSIVE ListBuild(_, _, _)
ListBuild(d, len, es) ==
    IF es = <<>> THEN ListNodes(len)
    ELSE LET e == es[Len(es)]
         IN  list_add_edge(d, ListBuild(d, len, SubSeq(es, 1, Len(es) - 1)), e[1], e[2], 1)

EdgeCalls(len) ==
    UNION {[1..k -> (0..(len - 1)) \X (0..(len - 1))] : k \in 0..MaxListEdges}

InitAlg ==
    /\ pd = "Directed"
    /\ pw = "Unweighted"
    /\ calls = 0
    /\ last = [op |-> "default", g |-> [n |-> 0, mtx |-> <<>>]]
    /\ it = NoIter
    /\ out = NoOut
    /\ res = NoRes
    /\ dj = NoDj
    /\ \/ /\ n \in 0..MaxNodes
          /\ mtx \in Matrices(n)
          /\ vals = [i \in 1..n |-> "unit"]
          /\ node_map = IF n = 0 THEN <<>> ELSE [v \in Values |-> n - 1]
          /\ lpd = "Directed"
          /\ nodes = <<>>
       \/ /\ n = 0
          /\ mtx = <<>>
          /\ vals = <<>>
          /\ node_map = <<>>
          /\ lpd \in {"Directed", "Undirected"}
          /\ \E len \in 1..MaxNodes : \E es \in EdgeCalls(len) :
                nodes = ListBuild(lpd, len, es)

Idle == it = NoIter /\ res = NoRes

\* g.dfs(start)
CallDfs ==
    /\ Idle
    /\ \E start \in Nodes(G) :
        /\ it' = DFS_new(start)
        /\ out' = [NoOut EXCEPT !.start = <<start>>]
    /\ UNCHANGED <<build_vars, lpd, nodes, res, dj>>

\* g.bfs(start) on the matrix graph
CallBfs ==
    /\ Idle
    /\ \E start \in Nodes(G) :
        /\ it' = BFS_new(start)
        /\ out' = [NoOut EXCEPT !.start = <<start>>]
    /\ UNCHANGED <<build_vars, lpd, nodes, res, dj>>

\* g.bfs(start) on the list graph
CallListBfs ==
    /\ Idle
    /\ \E start \in 0..(Len(nodes) - 1) :
        /\ it' = ListBFS_new(start)
        /\ out' = [NoOut EXCEPT !.start = <<start>>]
    /\ UNCHANGED <<build_vars, lpd, nodes, res, dj>>

\* What the consumer holds after one more next().
Consume(r) ==
    IF r.item = <<>> THEN [out EXCEPT !.exhausted = TRUE]
    ELSE [out EXCEPT !.yielded = Append(@, r.item[1])]

DfsNext ==
    /\ it.kind = "DFS"
    /\ ~out.exhausted
    /\ it' = DFS_next(G, it).it
    /\ out' = Consume(DFS_next(G, it))
    /\ UNCHANGED <<build_vars, lpd, nodes, res, dj>>

BfsNext ==
    /\ it.kind = "BFS"
    /\ ~out.exhausted
    /\ it' = BFS_next(G, it).it
    /\ out' = Consume(BFS_next(G, it))
    /\ UNCHANGED <<build_vars, lpd, nodes, res, dj>>

ListBfsNext ==
    /\ it.kind = "ListBFS"
    /\ ~out.exhausted
    /\ it' = ListBFS_next(nodes, it).it
    /\ out' = Consume(ListBFS_next(nodes, it))
    /\ UNCHANGED <<build_vars, lpd, nodes, res, dj>>

CallClosure ==
    /\ Idle
    /\ nodes = <<>>
    /\ res' = [fn |-> "bfs_compute_closure_mtx", panicked |-> FALSE,
               val |-> bfs_compute_closure_mtx(G)]
    /\ UNCHANGED <<build_vars, lpd, nodes, it, out, dj>>

CallPurdoms ==
    /\ Idle
    /\ nodes = <<>>
    /\ res' = [fn |-> "purdoms", panicked |-> purdoms(G).panicked,
               val |-> purdoms(G).val]
    /\ UNCHANGED <<build_vars, lpd, nodes, it, out, dj>>

CallSccs ==
    /\ Idle
    /\ nodes = <<>>
    /\ res' = [fn |-> "sccs", panicked |-> FALSE, val |-> sccs(G)]
    /\ UNCHANGED <<build_vars, lpd, nodes, it, out, dj>>

CallListSccs ==
    /\ Idle
    /\ nodes # <<>>
    /\ res' = [fn |-> "list_sccs", panicked |-> FALSE, val |-> list_sccs(nodes)]
    /\ UNCHANGED <<build_vars, lpd, nodes, it, out, dj>>

NextAlg ==
    \/ CallDfs \/ CallBfs \/ CallListBfs
    \/ DfsNext \/ BfsNext \/ ListBfsNext
    \/ CallClosure \/ CallPurdoms \/ CallSccs \/ CallListSccs

SpecAlg == InitAlg /\ [][NextAlg]_vars

\* ------------------------------------- traversal order: specification
\* The sets of at most k cells.
RECURSIVE CellSets(_, _)
CellSets(cells, k) ==
    IF k = 0 THEN {{}}
    ELSE LET P == CellSets(cells, k - 1)
         IN  P \cup {s \cup {e} : s \in P, e \in cells}

\* The matrices of a Directed, Unweighted graph of len nodes after at most
\* MaxOrderEdges add_edge calls on distinct pairs.
OrderMatrices(len) ==
    {[i \in 1..(len * len) |-> IF i \in s THEN 1 ELSE 0] :
        s \in CellSets(1..(len * len), MaxOrderEdges)}

OrderEdgeCalls(len) ==
    UNION {[1..k -> (0..(len - 1)) \X (0..(len - 1))] : k \in 0..MaxOrderListEdges}

InitOrder ==
    /\ pd = "Directed"
    /\ pw = "Unweighted"
    /\ calls = 0
    /\ last = [op |-> "default", g |-> [n |-> 0, mtx |-> <<>>]]
    /\ it = NoIter
    /\ out = NoOut
    /\ res = NoRes
    /\ dj = NoDj
    /\ \/ /\ n \in 0..MaxOrderNodes
          /\ mtx \in OrderMatrices(n)
          /\ vals = [i \in 1..n |-> "unit"]
          /\ node_map = IF n = 0 THEN <<>> ELSE [v \in Values |-> n - 1]
          /\ lpd = "Directed"
          /\ nodes = <<>>
       \/ /\ n = 0
          /\ mtx = <<>>
          /\ vals = <<>>
          /\ node_map = <<>>
          /\ lpd \in {"Directed", "Undirected"}
          /\ \E len \in 1..MaxOrderNodes : \E es \in OrderEdgeCalls(len) :
                nodes = ListBuild(lpd, len, es)

NextOrder ==
    \/ CallDfs
    \/ CallBfs
    \/ CallListBfs
    \/ DfsNext
    \/ BfsNext
    \/ ListBfsNext

SpecOrder == InitOrder /\ [][NextOrder]_vars

\* --------------------------------------------- Dijkstra: specification
\* Largest number of edges of a graph dijkstra is run on.
MaxDijkstraEdges == 3
\* Largest max_cost passed to dijkstra.
MaxCost == 3

\* The flat vectors of the directed weighted graphs with len nodes, at most
\* MaxDijkstraEdges edges and weights up to MaxWeight: each is reached by len
\* add_node calls followed by one add_edge call per edge.
WeightedMatrices(len) ==
    UNION {{[i \in 1..(len * len) |-> IF i \in cells THEN w[i] ELSE 0] :
                w \in [cells -> 1..MaxWeight]} :
           cells \in {c \in SUBSET (1..(len * len)) : Cardinality(c) <= MaxDijkstraEdges}}

\* None and Some(x) for x in S.
Opt(S) == {<<>>} \cup {<<x>> : x \in S}

InitDijkstra ==
    /\ pd = "Directed"
    /\ pw = "Weighted"
    /\ calls = 0
    /\ last = [op |-> "default", g |-> [n |-> 0, mtx |-> <<>>]]
    /\ n \in 1..MaxNodes
    /\ mtx \in WeightedMatrices(n)
    /\ vals = [i \in 1..n |-> "unit"]
    /\ node_map = [v \in Values |-> n - 1]
    /\ lpd = "Directed"
    /\ nodes = <<>>
    /\ it = NoIter
    /\ out = NoOut
    /\ res = NoRes
    /\ dj = NoDj

\* g.dijkstra(start, max_cost, target)
CallDijkstra ==
    /\ dj.pc = "idle"
    /\ \E start \in Nodes(G), max_cost \in Opt(-1..MaxCost), target \in Opt(Nodes(G)) :
        dj' = dijkstra_new("dijkstra", start, max_cost, target)
    /\ UNCHANGED <<build_vars, lpd, nodes, it, out, res>>

\* g.path_to(start, target), up to the loop of the dijkstra it calls
CallPathTo ==
    /\ dj.pc = "idle"
    /\ \E start \in Nodes(G), target \in Nodes(G) :
        dj' = dijkstra_new("path_to", start, <<>>, <<target>>)
    /\ UNCHANGED <<build_vars, lpd, nodes, it, out, res>>

\* One turn of dijkstra's loop; the turn that ends the loop also returns.
DijkstraPop ==
    /\ dj.pc = "loop"
    /\ IF dj.frontier = {} THEN dj' = Return(dj)
       ELSE \E current \in dj.frontier :
               /\ IsTop(dj.frontier, current)
               /\ dj' = dijkstra_turn(G, dj, current)
    /\ UNCHANGED <<build_vars, lpd, nodes, it, out, res>>

NextDijkstra == CallDijkstra \/ CallPathTo \/ DijkstraPop

SpecDijkstra == InitDijkstra /\ [][NextDijkstra]_vars

\* ======================================================== properties
\* ------------------------------------------------ construction (Spec)

\* C1: after add_node on a graph of N nodes, every cell (a, b) with
\* a, b < N reads (through edges, has_edge and edge_weight) the weight it
\* read before the call, and every cell of the new row N and of the new
\* column N reads 0.
AddNodePreservesMatrix ==
    last.op = "add_node" =>
        /\ \A a \in Nodes(last.g), b \in Nodes(last.g) :
            /\ edge_weight(G, a, b) = edge_weight(last.g, a, b)
            /\ has_edge(G, a, b) = has_edge(last.g, a, b)
            /\ At(edges(G, a), b) = At(edges(last.g, a), b)
        /\ \A k \in Nodes(G) :
            /\ edge_weight(G, n - 1, k) = 0
            /\ edge_weight(G, k, n - 1) = 0

\* C2: in an undirected graph has_edge and the stored weight are symmetric
\* in every state reached by add_node and add_edge calls with valid indices.
UndirectedSymmetric ==
    pd = "Undirected" =>
        \A a \in Nodes(G), b \in Nodes(G) :
            /\ has_edge(G, a, b) = has_edge(G, b, a)
            /\ edge_weight(G, a, b) = edge_weight(G, b, a)

\* C10: after transpose the weight of every cell (x, y) is the weight cell
\* (y, x) had before it, and the node count is unchanged.
TransposeReversesEdges ==
    last.op = "transpose" =>
        /\ n = last.g.n
        /\ Len(mtx) = Len(last.g.mtx)
        /\ \A x \in Nodes(G), y \in Nodes(G) :
            edge_weight(G, x, y) = edge_weight(last.g, y, x)

\* A transpose of a graph with an edge x -> y and no edge y -> x.
TransposeWitness ==
    /\ last.op = "transpose"
    /\ \E x \in Nodes(G), y \in Nodes(G) :
        /\ x # y
        /\ edge_weight(last.g, x, y) > 0
        /\ edge_weight(last.g, y, x) = 0
        /\ edge_weight(G, y, x) > 0

\* ------------------------------------------------- algorithms (SpecAlg)
\* The graph relation the properties are stated over: the successors of
\* every node, read from the matrix or from the edge lists.
MtxSucc(g) == [i \in Nodes(g) |-> {j \in Nodes(g) : edge_weight(g, i, j) > 0}]

ListSucc(ns) ==
    [i \in 0..(Len(ns) - 1) |-> {ns[i + 1].edges[k].next : k \in 1..Len(ns[i + 1].edges)}]

\* The nodes reached from a node of S by a path of length >= 0.
RECURSIVE ReachSet(_, _)
ReachSet(succ, S) ==
    LET nxt == S \cup UNION {succ[i] : i \in S}
    IN  IF nxt = S THEN S ELSE ReachSet(succ, nxt)

\* The nodes reached from s by a path of length >= 0, and of length >= 1.
Reach0(succ, s) == ReachSet(succ, {s})
Reach1(succ, s) == ReachSet(succ, succ[s])

Range(q) == {q[i] : i \in 1..Len(q)}

\* The relation of the graph the current iterator walks.
IterSucc == IF it.kind = "ListBFS" THEN ListSucc(nodes) ELSE MtxSucc(G)

\* C3: a traversal (matrix BFS, matrix DFS, list BFS) from S consumed to its
\* end has yielded every node reachable from S by a path of length >= 0
\* exactly once and no other node; before its end it has yielded no node
\* twice and no unreachable node.
TraversalYieldsReachableOnce ==
    it.kind # "none" =>
        /\ Cardinality(Range(out.yielded)) = Len(out.yielded)
        /\ Range(out.yielded) \subseteq Reach0(IterSucc, out.start[1])
        /\ out.exhausted => Range(out.yielded) = Reach0(IterSucc, out.start[1])

\* A DFS consumed to its end on a three-node graph with the cycle 0 -> 1 -> 0.
TraversalWitness ==
    /\ it.kind = "DFS"
    /\ out.exhausted
    /\ n = 3
    /\ has_edge(G, 0, 1)
    /\ has_edge(G, 1, 0)
    /\ out.start = <<0>>
    /\ Range(out.yielded) = {0, 1}

\* Scenario B: a -> b, a -> c, b -> c, c -> a, c -> d on a, b, c, d = 0..3.
ScenarioB ==
    [n |-> 4,
     mtx |-> <<0, 1, 1, 0,
               0, 0, 1, 0,
               1, 0, 0, 1,
               0, 0, 0, 0>>]

\* C4: bfs_compute_closure_mtx returns an N x N matrix whose cell [i][j] is
\* true exactly when j = i or a directed path leads from i to j; a -> b alone
\* gives [[T,T],[F,T]], and scenario B gives all-true rows for a, b, c and
\* [F,F,F,T] for d.
ClosureIsReflexiveReachability ==
    res.fn = "bfs_compute_closure_mtx" =>
        /\ ~res.panicked
        /\ Len(res.val) = n
        /\ \A i \in Nodes(G) :
            /\ Len(At(res.val, i)) = n
            /\ \A j \in Nodes(G) :
                At(At(res.val, i), j) = (j = i \/ j \in Reach1(MtxSucc(G), i))
        /\ (n = 2 /\ mtx = <<0, 1, 0, 0>>) =>
                res.val = <<<<TRUE, TRUE>>, <<FALSE, TRUE>>>>
        /\ bfs_compute_closure_mtx(ScenarioB)
              = <<<<TRUE, TRUE, TRUE, TRUE>>, <<TRUE, TRUE, TRUE, TRUE>>,
                  <<TRUE, TRUE, TRUE, TRUE>>, <<FALSE, FALSE, FALSE, TRUE>>>>

\* The closure of the two-hop chain 0 -> 1 -> 2.
ClosureWitness ==
    /\ res.fn = "bfs_compute_closure_mtx"
    /\ n = 3
    /\ mtx = <<0, 1, 0, 0, 0, 1, 0, 0, 0>>
    /\ res.val = <<<<TRUE, TRUE, TRUE>>, <<FALSE, TRUE, TRUE>>, <<FALSE, FALSE, TRUE>>>>

\* C5 as stated: in the matrix bfs_compute_closure_mtx returns, cell (i, j)
\* is true iff j is reached from i by a path of one or more edges, so a
\* diagonal cell is true only if a cycle returns to i.
ClosureIsStrictReachability ==
    res.fn = "bfs_compute_closure_mtx" =>
        \A i \in Nodes(G), j \in Nodes(G) :
            At(At(res.val, i), j) = (j \in Reach1(MtxSucc(G), i))

\* C5 amended: off the diagonal, cell (i, j) is true iff j is reached from i
\* by a path of one or more edges; every diagonal cell (i, i) is true, whether
\* or not a cycle returns to i.
ClosureDiagonalAlwaysTrue ==
    res.fn = "bfs_compute_closure_mtx" =>
        \A i \in Nodes(G) :
            /\ At(At(res.val, i), i)
            /\ \A j \in Nodes(G) \ {i} :
                At(At(res.val, i), j) = (j \in Reach1(MtxSucc(G), i))

\* A closure of a graph with a node on no cycle whose diagonal cell is true.
ClosureDiagonalWitness ==
    /\ res.fn = "bfs_compute_closure_mtx"
    /\ \E i \in Nodes(G) :
        /\ i \notin Reach1(MtxSucc(G), i)
        /\ At(At(res.val, i), i)
        /\ \E j \in Nodes(G) : j # i /\ At(At(res.val, i), j)

\* C6: purdoms returns a matrix, and it is cell for cell the matrix
\* bfs_compute_closure_mtx returns on the same graph.
PurdomsEqualsBfsClosure ==
    res.fn = "purdoms" =>
        /\ ~res.panicked
        /\ res.val = bfs_compute_closure_mtx(G)

\* The nodes of the strongly connected component of u.
SccOf(succ, u) == {v \in DOMAIN succ : v \in Reach0(succ, u) /\ u \in Reach0(succ, v)}

\* The relation of the graph the SCC call was made on.
SccSucc == IF res.fn = "list_sccs" THEN ListSucc(nodes) ELSE MtxSucc(G)

\* Scenario C: b -> a, a -> c, c -> b, a -> d, d -> e on a, b, c, d, e = 0..4.
ScenarioC ==
    [n |-> 5,
     mtx |-> <<0, 0, 1, 1, 0,
               1, 0, 0, 0, 0,
               0, 1, 0, 0, 0,
               0, 0, 0, 0, 1,
               0, 0, 0, 0, 0>>]

ScenarioCList ==
    ListBuild("Directed", 5, <<<<1, 0>>, <<0, 2>>, <<2, 1>>, <<0, 3>>, <<3, 4>>>>)

\* C7: the label vector Tarjan::sccs returns (list form and matrix form) gives
\* two nodes the same label iff each is reachable from the other, so the
\* number of distinct labels is the number of components: 3 for scenario C.
TarjanLabelsAreComponents ==
    res.fn \in {"sccs", "list_sccs"} =>
        /\ Len(res.val) = Cardinality(DOMAIN SccSucc)
        /\ \A u \in DOMAIN SccSucc, v \in DOMAIN SccSucc :
            (At(res.val, u) = At(res.val, v)) <=> (v \in SccOf(SccSucc, u))
        /\ Cardinality(Range(res.val))
              = Cardinality({SccOf(SccSucc, u) : u \in DOMAIN SccSucc})
        /\ Cardinality(Range(sccs(ScenarioC))) = 3
        /\ Cardinality(Range(list_sccs(ScenarioCList))) = 3

\* Labels of a matrix graph with a two-node component and a node outside it.
TarjanWitness ==
    /\ res.fn = "sccs"
    /\ n = 3
    /\ At(res.val, 0) = At(res.val, 2)
    /\ At(res.val, 1) # At(res.val, 0)
    /\ has_edge(G, 0, 1)

\* ----------------------------------------------- Dijkstra (SpecDijkstra)
SetMin(S) == CHOOSE x \in S : \A y \in S : x <= y

\* One round of relaxing every edge: d maps the nodes found so far to the
\* least cost found so far.
RelaxAll(g, d) ==
    LET cand(v) == {d[u] + edge_weight(g, u, v) :
                        u \in {x \in DOMAIN d : edge_weight(g, x, v) > 0}}
                   \cup (IF v \in DOMAIN d THEN {d[v]} ELSE {})
    IN  [v \in {x \in Nodes(g) : cand(x) # {}} |-> SetMin(cand(v))]

RECURSIVE RelaxFix(_, _)
RelaxFix(g, d) == IF RelaxAll(g, d) = d THEN d ELSE RelaxFix(g, RelaxAll(g, d))

\* The true least cost from s of every node reachable from s: the least sum
\* of the positive weights along a path.
MinDist(g, s) == RelaxFix(g, [v \in {s} |-> 0])

\* The summed edge weights of start -> path[k] -> ... -> path[1].
RECURSIVE PathCost(_, _, _)
PathCost(g, start, path) ==
    IF path = <<>> THEN 0
    ELSE LET from == IF Len(path) = 1 THEN start ELSE path[2]
         IN  edge_weight(g, from, path[1]) + PathCost(g, start, Tail(path))

\* A finished dijkstra(start, Some(m), None).
CutoffRun == dj.pc = "done" /\ dj.call = "dijkstra" /\ dj.max_cost # <<>> /\ dj.target = <<>>

\* C8 as stated: the predecessor map dijkstra(start, Some(m), None) returns
\* holds no node whose true least cost from start is greater than m.
CutoffExcludesFarNodes ==
    CutoffRun =>
        \A v \in DOMAIN dj.ret :
            /\ v \in DOMAIN MinDist(G, dj.start)
            /\ MinDist(G, dj.start)[v] <= dj.max_cost[1]

\* C8 amended: the map holds the start node (mapped to None) whatever m is,
\* negative m included, and no other node whose true least cost from start is
\* greater than m.
CutoffExcludesFarNodesButStart ==
    CutoffRun =>
        /\ dj.start \in DOMAIN dj.ret
        /\ dj.ret[dj.start] = <<>>
        /\ \A v \in (DOMAIN dj.ret) \ {dj.start} :
            /\ v \in DOMAIN MinDist(G, dj.start)
            /\ MinDist(G, dj.start)[v] <= dj.max_cost[1]

\* A run whose cutoff keeps one reachable node in the map and one out of it.
CutoffWitness ==
    /\ CutoffRun
    /\ \E u \in Nodes(G), v \in Nodes(G) :
        /\ u # dj.start
        /\ u \in DOMAIN dj.ret
        /\ v \in DOMAIN MinDist(G, dj.start)
        /\ MinDist(G, dj.start)[v] > dj.max_cost[1]
        /\ v \notin DOMAIN dj.ret

\* C9: for a target reachable from start, path_to returns Some(path) where
\* path runs from the target back to the node after start and leaves start
\* out, each step is an edge of the graph, and the summed weights are the
\* least cost from start to target, which is also the cost a dijkstra with
\* neither cutoff nor target ends with for that node.
PathToIsShortest ==
    /\ (dj.pc = "done" /\ dj.call = "path_to"
            /\ dj.target[1] \in DOMAIN MinDist(G, dj.start)) =>
        /\ dj.ret # <<>>
        /\ LET path == dj.ret[1]
               k == Len(path)
           IN  /\ dj.start \notin Range(path)
               /\ (dj.target[1] = dj.start) <=> (path = <<>>)
               /\ k > 0 => path[1] = dj.target[1]
               /\ k > 0 => has_edge(G, dj.start, path[k])
               /\ \A i \in 1..(k - 1) : has_edge(G, path[i + 1], path[i])
               /\ PathCost(G, dj.start, path) = MinDist(G, dj.start)[dj.target[1]]
    /\ (dj.pc = "done" /\ dj.call = "dijkstra" /\ dj.max_cost = <<>> /\ dj.target = <<>>) =>
        dj.cost_so_far = MinDist(G, dj.start)

\* path_to(0, 1) where the edge 0 -> 1 costs 3 and 0 -> 2 -> 1 costs 2.
PathToWitness ==
    /\ dj.pc = "done"
    /\ dj.call = "path_to"
    /\ n = 3
    /\ dj.start = 0
    /\ dj.target = <<1>>
    /\ edge_weight(G, 0, 1) = 3
    /\ edge_weight(G, 0, 2) = 1
    /\ edge_weight(G, 2, 1) = 1
    /\ dj.ret = <<<<1, 2>>>>

\* ------------------------------------------------- indexing (SpecIndex)
\* C11: an add_edge, has_edge or edge_weight call with an index >= N panics:
\* it returns no value and leaves every cell of the matrix as it was.
OutOfRangeIndexPanics ==
    (last.op \in IndexOps /\ (last.x >= last.g.n \/ last.y >= last.g.n)) =>
        /\ last.panicked
        /\ last.ret = <<>>
        /\ mtx = last.g.mtx

\* ----------------------------------------- Dijkstra, continued (SpecDijkstra)
\* C12: path_to(start, target) returns None exactly when no path of
\* positive-weight edges leads from start to target, and Some(path) otherwise:
\* Some of the empty sequence when target is start.
PathToNoneIffUnreachable ==
    (dj.pc = "done" /\ dj.call = "path_to") =>
        /\ (dj.ret = <<>>) <=> (dj.target[1] \notin Reach0(MtxSucc(G), dj.start))
        /\ dj.target[1] = dj.start => dj.ret = <<<<>>>>

\* path_to returning None for a target that has edges of its own and that no
\* path from start reaches, start having an edge to another node.
PathToNoneWitness ==
    /\ dj.pc = "done"
    /\ dj.call = "path_to"
    /\ dj.ret = <<>>
    /\ dj.target[1] # dj.start
    /\ \E v \in Nodes(G) : v # dj.start /\ has_edge(G, dj.start, v)
    /\ has_edge(G, dj.target[1], dj.start)

\* ------------------------------------------- traversal order (SpecOrder)
\* The elements of a set of nodes in ascending and in descending order.
RECURSIVE Ascending(_)
Ascending(S) ==
    IF S = {} THEN <<>> ELSE <<SetMin(S)>> \o Ascending(S \ {SetMin(S)})

RECURSIVE Reverse(_)
Reverse(q) == IF q = <<>> THEN <<>> ELSE Append(Reverse(Tail(q)), Head(q))

ScanOrder(succ, asc, v) ==
    IF asc THEN Ascending(succ[v]) ELSE Reverse(Ascending(succ[v]))

\* The pre-order of the recursive depth-first search: visit(v) records v and
\* then, for each neighbour w of v in scan order, calls visit(w) unless w has
\* been recorded. seen is the sequence recorded so far, todo the neighbours of
\* the current node still to scan.
RECURSIVE PreOrderScan(_, _, _, _)
PreOrderScan(succ, asc, todo, seen) ==
    IF todo = <<>> THEN seen
    ELSE LET w == Head(todo)
         IN  PreOrderScan(succ, asc, Tail(todo),
                IF w \in Range(seen) THEN seen
                ELSE PreOrderScan(succ, asc, ScanOrder(succ, asc, w), Append(seen, w)))

PreOrder(succ, asc, start) ==
    PreOrderScan(succ, asc, ScanOrder(succ, asc, start), <<start>>)

\* C13: the sequence a matrix DFS iterator yields is the pre-order of the
\* recursive depth-first search from its start that scans neighbours in
\* ascending index order, or of the one that scans them in descending order.
DfsYieldsPreOrder ==
    (it.kind = "DFS" /\ out.exhausted) =>
        \/ out.yielded = PreOrder(MtxSucc(G), TRUE, out.start[1])
        \/ out.yielded = PreOrder(MtxSucc(G), FALSE, out.start[1])

\* C14 as stated: during a dijkstra run an entry of came_from, once inserted,
\* is never replaced by a different predecessor.
CameFromInsertOnce ==
    [][dj.pc = "loop" =>
          \A v \in DOMAIN dj.came_from :
              /\ v \in DOMAIN dj'.came_from
              /\ dj'.came_from[v] = dj.came_from[v]]_vars

\* C14: during a dijkstra run an entry of came_from is never removed, the
\* start's entry (none) is never replaced, and another node's entry is
\* replaced by a different predecessor only in a turn that lowers that node's
\* cost in cost_so_far.
CameFromReplacedOnlyByCheaper ==
    [][dj.pc = "loop" =>
          \A v \in DOMAIN dj.came_from :
              /\ v \in DOMAIN dj'.came_from
              /\ v = dj.start => dj'.came_from[v] = <<>>
              /\ dj'.came_from[v] # dj.came_from[v] =>
                    dj'.cost_so_far[v] < dj.cost_so_far[v]]_vars

\* A run without cutoff in which the entry of a neighbour v of start, first
\* inserted with predecessor start, has been replaced by a cheaper route.
CameFromReplacedWitness ==
    /\ dj.call = "dijkstra"
    /\ dj.pc \in {"loop", "done"}
    /\ dj.max_cost = <<>>
    /\ \E v \in DOMAIN dj.came_from :
          /\ v # dj.start
          /\ edge_weight(G, dj.start, v) > 0
          /\ dj.came_from[v] # <<dj.start>>
          /\ dj.came_from[v] # <<>>
          /\ dj.cost_so_far[v] < edge_weight(G, dj.start, v)

\* The least number of edges of a path from a node of layer to v, the nodes of
\* seen being nearer; the number of nodes when there is no such path.
RECURSIVE HopsFrom(_, _, _, _)
HopsFrom(succ, layer, seen, v) ==
    IF v \in layer THEN 0
    ELSE IF layer = {} THEN Cardinality(DOMAIN succ)
    ELSE 1 + HopsFrom(succ, (UNION {succ[i] : i \in layer}) \ (seen \cup layer),
                      seen \cup layer, v)

Hops(succ, s, v) == HopsFrom(succ, {s}, {}, v)

\* C15: what a BFS iterator (matrix or list graph) has yielded so far is in
\* non-decreasing order of hop distance from its start.
BfsYieldsByHopDistance ==
    it.kind \in {"BFS", "ListBFS"} =>
        \A i, j \in 1..Len(out.yielded) :
            i < j => Hops(IterSucc, out.start[1], out.yielded[i])
                        <= Hops(IterSucc, out.start[1], out.yielded[j])

\* A matrix BFS consumed to its end that yielded the start, two nodes one hop
\* away and then a node two hops away.
BfsHopWitness ==
    /\ it.kind = "BFS"
    /\ out.exhausted
    /\ Len(out.yielded) = 4
    /\ Hops(IterSucc, out.start[1], out.yielded[2]) = 1
    /\ Hops(IterSucc, out.start[1], out.yielded[3]) = 1
    /\ Hops(IterSucc, out.start[1], out.yielded[4]) = 2

\* ----------------------------------------- Tarjan, continued (SpecAlg)
\* C16 as stated: the label of v is the index of a node of v's component.
TarjanLabelIsNodeOfComponent ==
    res.fn \in {"sccs", "list_sccs"} =>
        \A v \in DOMAIN SccSucc :
            /\ At(res.val, v) < Cardinality(DOMAIN SccSucc)
            /\ At(res.val, v) \in SccOf(SccSucc, v)

\* The discovery indices (ids) the call that produced res assigned.
SccIds ==
    IF res.fn = "list_sccs"
    THEN TarjanRoots([i \in 0..(Len(nodes) - 1) |-> list_neighbors(nodes, i)],
                     Tarjan_new(Len(nodes)), 0).ids
    ELSE TarjanRoots([i \in Nodes(G) |-> mtx_neighbors(G, i)], Tarjan_new(G.n), 0).ids

\* C16: the label of v is the discovery index, counted from 1, of the node of
\* v's component that the depth-first pass discovered first: it lies in 1..N
\* and is the least discovery index of a node of the component.
TarjanLabelIsRootDiscoveryIndex ==
    res.fn \in {"sccs", "list_sccs"} =>
        \A v \in DOMAIN SccSucc :
            /\ At(res.val, v) \in 1..Cardinality(DOMAIN SccSucc)
            /\ \E r \in SccOf(SccSucc, v) : At(SccIds, r) = At(res.val, v)
            /\ \A u \in SccOf(SccSucc, v) : At(SccIds, u) >= At(res.val, v)

\* Labels of a matrix graph with a component of two nodes, where the label N
\* is given to a node, and where a label names a node outside the component.
TarjanLabelWitness ==
    /\ res.fn = "sccs"
    /\ \E v \in Nodes(G) : At(res.val, v) = G.n
    /\ \E v \in Nodes(G) : Cardinality(SccOf(SccSucc, v)) = 2
    /\ \E v \in Nodes(G) :
          At(res.val, v) < G.n /\ At(res.val, v) \notin SccOf(SccSucc, v)

====
